---- MODULE Spec2Model ----
(***************************************************************************)
(* Model of pyopia.pipeline.Pipeline (src/pyopia/pipeline.py).             *)
(*                                                                         *)
(* The registry `steps` is a Python dict: an insertion-ordered sequence of *)
(* distinct stage names, each bound to a handler.  The Context `data` is a *)
(* Python dict: a function whose DOMAIN is the set of keys present.        *)
(* A stage handler is external code: what it returns (or raises) is an     *)
(* input, drawn from a small set at every invocation.                      *)
(***************************************************************************)
EXTENDS Naturals, Sequences, FiniteSets, TLC

\* ------------------------------------------------------------------ bounds
MaxRuns == 2           \* calls to run() made on one engine instance

\* ------------------------------------------------------- the input universe
StageNames == {"initial", "classifier", "load"}
InitialNames == {"initial", "classifier", "ghost"}  \* "ghost" is in no registry
Files == {"f1", "f2"}
Values == {"v1", "v2"}
StageKeys == {"cl", "stats", "imbg"}
Errors == {"IOError"}
NoStage == "-"

\* The keys of the registry silcam_steps returns, in its order.
SilcamSteps ==
    <<"classifier", "load", "imageprep", "segmentation", "statextract", "output">>
AllNames == StageNames \cup {SilcamSteps[n] : n \in 1..Len(SilcamSteps)}

\* A handler object of the registry: its class, the Context keys its __call__
\* reads (a missing one is a KeyError), and whether __call__ may change the
\* object's own attributes.
Handler(needs, mutable) == [type |-> "Handler", needs |-> needs, mutable |-> mutable]
Plain == Handler({}, FALSE)

\* Sequences of distinct stage names of length n: the key lists a dict can have.
RECURSIVE DistinctSeqs(_)
DistinctSeqs(n) ==
    IF n = 0 THEN {<<>>}
    ELSE {Append(q, s) : q \in DistinctSeqs(n - 1), s \in StageNames} \cap
         {q \in [1..n -> StageNames] : \A a, b \in 1..n : a # b => q[a] # q[b]}

Registries == UNION {DistinctSeqs(n) : n \in 0..Cardinality(StageNames)}

\* ------------------------------------------------------------ dict helpers
EmptyDict == << >>

Has(d, k) == k \in DOMAIN d

\* d[k] = v
Put(d, k, v) == [x \in (DOMAIN d) \cup {k} |-> IF x = k THEN v ELSE d[x]]

\* del d[k]
Del(d, k) == [x \in (DOMAIN d) \ {k} |-> d[x]]

\* ----------------------------------------------------------------- state
VARIABLES
    steps,          \* self.steps: the registry, keys in insertion order
    initial_steps,  \* self.initial_steps, used only through __contains__
    data,           \* self.data: the Context
    pc,             \* "init" | "init_failed" | "ready" | "run"
    i,              \* position of the running for-loop in steps (1-based)
    engine,         \* TRUE once the constructor has returned an instance
    outcome,        \* how the last finished call ended
    log,            \* stages invoked by the call in progress (or last finished)
    calls,          \* invocations of each stage over the engine's lifetime
    bare,           \* invocations made with no argument, per stage
    nruns,          \* calls to run() started
    ndone,          \* calls to run() that returned a value
    clRet,          \* what the classifier's no-argument invocation returned
    failedAt,       \* the stage that raised in the call in progress / last call
    initKeys,       \* the keys of the Context when the constructor returned
    handlers,       \* the registry's values: the handler object bound to each name
    attrs,          \* vars() of each handler object
    input,          \* the filename argument of the run() in progress (or last)
    statsSrc        \* Context["stats"] in this call: "none", "old" (left by an
                    \* earlier call or construction) or "new" (set by a stage)

\* Two calls of run() made from two threads, on one engine or on two.
VARIABLES
    cdata,          \* self.data of each engine instance
    on,             \* the engine instance each thread calls run() on
    arg,            \* the filename argument of each thread's call
    tpc,            \* where each thread's call is: "call" | "seed" | "loop" | "done"
    ti,             \* position of each thread's for-loop in steps
    foreign,        \* a stage of the thread's call got another call's filename
    ret             \* how each thread's call ended

\* The working directory and the example-data functions called in it.
VARIABLES
    present,        \* names that exist in the working directory
    downloads,      \* downloads made of each remote item
    last,           \* the last call: function, argument, download, return value
    ncalls          \* calls made

pipeVars == <<steps, initial_steps, data, pc, i, engine, outcome, log, calls, bare,
              nruns, ndone, clRet, failedAt, initKeys, handlers, attrs, input,
              statsSrc>>
concVars == <<cdata, on, arg, tpc, ti, foreign, ret>>
dataVars == <<present, downloads, last, ncalls>>

vars == <<pipeVars, concVars, dataVars>>

NoOutcome == [kind |-> "none", val |-> "-"]
Returned(v) == [kind |-> "returned", val |-> v]
Raised(e) == [kind |-> "raised", val |-> e]

\* An audit string numbered from 0.
StepsToString_ZeroBased(st) ==
    [n \in 1..Len(st) |->
        [index |-> n - 1, step |-> st[n], type |-> handlers[st[n]].type,
         vars |-> attrs[st[n]]]]

\* ------------------------------------------------------------ audit string
\* steps_to_string: one line-group per key, numbered from 1, in key order.
\* Each group also prints the handler's type and its vars().
StepsToString(st) ==
    [n \in 1..Len(st) |->
        [index |-> n, step |-> st[n], type |-> handlers[st[n]].type,
         vars |-> attrs[st[n]]]]

\* --------------------------------------------------------- stage behaviour
\* The dicts an ordinary handler may hand back when given d: d itself, d with
\* one key written or deleted (the same object mutated), or a fresh dict.
Mutations(d) ==
    {d} \cup {Put(d, k, v) : k \in StageKeys, v \in Values}
        \cup {Del(d, k) : k \in StageKeys}

StageReturns(d) == Mutations(d) \cup {EmptyDict}

\* ------------------------------------------------------- silcam handlers
\* timestamp_from_filename(f), np.load(f) and the normalised image: each a
\* value derived from its argument.
Timestamp(f) == [timestamp_of |-> f]
Image(f) == [pixels_of |-> f]
Corrected(img) == [corrected |-> img]

\* SilCamLoad.__call__
SilCamLoad_Fresh(d) ==
    [k \in {"timestamp", "img"} |->
        IF k = "img" THEN Image(d["filename"]) ELSE Timestamp(d["filename"])]
SilCamLoad(d) ==
    Put(Put(d, "timestamp", Timestamp(d["filename"])), "img", Image(d["filename"]))

\* ImagePrep.__call__
ImagePrep(d) == Put(d, "imc", Corrected(d["img"]))

\* pyopia.process.Segment, pyopia.process.CalculateStats and pyopia.io.StatsH5:
\* a segmentation stage, a statistics stage that leaves "stats", and a
\* persistence stage that writes and hands the Context on.
Segment(d) == Put(d, "imbw", [segmented |-> d["imc"]])
CalculateStats(d) == Put(d, "stats", [stats_of |-> d["imbw"]])
StatsH5(d) == d

SilcamTypes == {"SilCamLoad", "ImagePrep", "Segment", "CalculateStats", "StatsH5"}

\* What handler s returns when called with d, and what it leaves in d when it
\* raises instead.
HandlerReturns(s, d) ==
    CASE handlers[s].type = "SilCamLoad" -> {SilCamLoad(d)}
      [] handlers[s].type = "ImagePrep" -> {ImagePrep(d)}
      [] handlers[s].type = "Segment" -> {Segment(d)}
      [] handlers[s].type = "CalculateStats" -> {CalculateStats(d)}
      [] handlers[s].type = "StatsH5" -> {StatsH5(d)}
      [] OTHER -> StageReturns(d)
HandlerLeaves(s, d) == IF handlers[s].type \in SilcamTypes THEN {d} ELSE Mutations(d)

\* A handler can return only if the keys it reads are there.
CanReturn(s, d) == handlers[s].needs \subseteq DOMAIN d

\* The exceptions a call of handler s with d can raise.
HandlerErrors(s, d) == IF CanReturn(s, d) THEN Errors ELSE Errors \cup {"KeyError"}

\* vars() of handler s after a call of it.
AttrsAfter(s) == IF handlers[s].mutable THEN {attrs[s], "changed"} ELSE {attrs[s]}

\* Where Context["stats"] comes from once a handler has turned d into r.
StatsSource(d, r) ==
    IF ~Has(r, "stats") THEN "none"
    ELSE IF Has(d, "stats") /\ r["stats"] = d["stats"] THEN statsSrc
    ELSE "new"

\* ------------------------------------------------------------- the engine
\* self.initial_steps.__contains__(s)
IsInitial(s) == s \in initial_steps

\* __init__ invokes s unless `not self.initial_steps.__contains__(s)`.
InitRuns_Default(s) == s \in {"initial", "classifier"}
InitRuns(s) == IsInitial(s)

\* run() invokes s unless `self.initial_steps.__contains__(s)`.
RunRuns_Inverted(s) == IsInitial(s)
RunRuns_All(s) == TRUE
RunRuns(s) == ~IsInitial(s)

\* No thread has called run(); no example-data function has been called.
NoThreads ==
    /\ cdata = EmptyDict /\ on = EmptyDict /\ arg = EmptyDict /\ tpc = EmptyDict
    /\ ti = EmptyDict /\ foreign = EmptyDict /\ ret = EmptyDict

NoDirectory ==
    /\ present = {} /\ downloads = EmptyDict /\ last = EmptyDict /\ ncalls = 0

Init ==
    /\ steps \in Registries
    /\ initial_steps \in SUBSET InitialNames
    /\ data = EmptyDict
    /\ pc = "init"
    /\ i = 1
    /\ engine = FALSE
    /\ outcome = NoOutcome
    /\ log = <<>>
    /\ calls = [s \in AllNames |-> 0]
    /\ bare = [s \in AllNames |-> 0]
    /\ nruns = 0
    /\ ndone = 0
    /\ clRet = "-"
    /\ failedAt = NoStage
    /\ initKeys = {}
    /\ handlers = [s \in AllNames |-> Plain]
    /\ attrs = [s \in AllNames |-> "constructed"]
    /\ input = "-"
    /\ statsSrc = "none"
    /\ NoThreads /\ NoDirectory

\* Bookkeeping of one invocation of stage s (mode: "bare" or "ctx").
Invoke(s, mode) ==
    /\ log' = Append(log, <<s, mode>>)
    /\ calls' = [calls EXCEPT ![s] = @ + 1]
    /\ bare' = IF mode = "bare" THEN [bare EXCEPT ![s] = @ + 1] ELSE bare
    /\ \E a \in AttrsAfter(s) : attrs' = [attrs EXCEPT ![s] = a]

\* An exception raised inside a handler: no try/except surrounds the call, so
\* the caller of the constructor or of run() gets that very exception.
Propagate_Wrapped(e) == Raised("PipelineError")
Propagate(e) == Raised(e)

\* __init__, loop body: `if not initial_steps.__contains__(s): continue`
InitSkip ==
    /\ pc = "init" /\ i <= Len(steps)
    /\ ~InitRuns(steps[i])
    /\ i' = i + 1
    /\ UNCHANGED <<concVars, dataVars>>
    /\ UNCHANGED <<steps, initial_steps, data, pc, engine, outcome, log, calls,
                   bare, nruns, ndone, clRet, failedAt, initKeys,
                   handlers, attrs, input, statsSrc>>

\* self.data['cl'] = <the value the classifier returned>
ClassifierStore_ByName(d, v) == Put(d, "classifier", v)
ClassifierStore(d, v) == Put(d, "cl", v)

\* A constructor with no special case: the classifier is called like any
\* other stage and what it returns becomes the Context.
InitClassifier_Ordinary ==
    /\ pc = "init" /\ i <= Len(steps)
    /\ InitRuns(steps[i])
    /\ steps[i] = "classifier"
    /\ \E r \in HandlerReturns(steps[i], data) : data' = r
    /\ clRet' = clRet
    /\ Invoke(steps[i], "ctx")
    /\ i' = i + 1
    /\ UNCHANGED <<concVars, dataVars>>
    /\ UNCHANGED <<steps, initial_steps, pc, engine, outcome, nruns, ndone,
                   failedAt, initKeys,
                   handlers, input, statsSrc>>

\* __init__, loop body: self.data['cl'] = self.steps['classifier']()
InitClassifier ==
    /\ pc = "init" /\ i <= Len(steps)
    /\ InitRuns(steps[i])
    /\ steps[i] = "classifier"
    /\ \E v \in Values :
         /\ data' = ClassifierStore(data, v)
         /\ clRet' = v
    /\ Invoke(steps[i], "bare")
    /\ i' = i + 1
    /\ UNCHANGED <<concVars, dataVars>>
    /\ UNCHANGED <<steps, initial_steps, pc, engine, outcome, nruns, ndone,
                   failedAt, initKeys,
                   handlers, input, statsSrc>>

\* __init__, loop body: self.data = self.steps[s](self.data)
InitStage ==
    /\ pc = "init" /\ i <= Len(steps)
    /\ InitRuns(steps[i])
    /\ steps[i] # "classifier"
    /\ CanReturn(steps[i], data)
    /\ \E r \in HandlerReturns(steps[i], data) : data' = r
    /\ Invoke(steps[i], "ctx")
    /\ i' = i + 1
    /\ UNCHANGED <<concVars, dataVars>>
    /\ UNCHANGED <<steps, initial_steps, pc, engine, outcome, nruns, ndone,
                   clRet, failedAt, initKeys,
                   handlers, input, statsSrc>>

\* The invoked handler raises (an ordinary handler may have written to the
\* dict it was given before raising).
HandlerRaises(mode) ==
    /\ IF mode = "bare" THEN data' = data
          ELSE \E r \in HandlerLeaves(steps[i], data) : data' = r
    /\ Invoke(steps[i], mode)
    /\ \E e \in (IF mode = "bare" THEN Errors ELSE HandlerErrors(steps[i], data)) :
         outcome' = Propagate(e)
    /\ failedAt' = steps[i]

\* A constructor that catches the handler's exception and carries on.
InitRaise_Swallowed ==
    /\ pc = "init" /\ i <= Len(steps)
    /\ InitRuns(steps[i])
    /\ HandlerRaises(IF steps[i] = "classifier" THEN "bare" ELSE "ctx")
    /\ i' = i + 1
    /\ UNCHANGED <<concVars, dataVars>>
    /\ UNCHANGED <<steps, initial_steps, pc, engine, nruns, ndone, clRet,
                   initKeys,
                   handlers, input, statsSrc>>

\* __init__: the invoked handler raises; nothing catches it, so the
\* constructor is left by the exception and the caller gets no instance.
InitRaise ==
    /\ pc = "init" /\ i <= Len(steps)
    /\ InitRuns(steps[i])
    /\ HandlerRaises(IF steps[i] = "classifier" THEN "bare" ELSE "ctx")
    /\ pc' = "init_failed"
    /\ UNCHANGED <<concVars, dataVars>>
    /\ UNCHANGED <<steps, initial_steps, i, engine, nruns, ndone, clRet,
                   initKeys,
                   handlers, input, statsSrc>>

\* A constructor that validates the initial set against the registry.
InitDone_Validating ==
    /\ pc = "init" /\ i > Len(steps)
    /\ IF \A n \in initial_steps : \E j \in 1..Len(steps) : steps[j] = n
          THEN pc' = "ready" /\ engine' = TRUE /\ outcome' = Returned("instance")
          ELSE pc' = "init_failed" /\ engine' = FALSE /\ outcome' = Raised("KeyError")
    /\ initKeys' = DOMAIN data
    /\ UNCHANGED <<concVars, dataVars>>
    /\ UNCHANGED <<steps, initial_steps, data, i, log, calls, bare, nruns,
                   ndone, clRet, failedAt,
                   handlers, attrs, input, statsSrc>>

\* A constructor that leaves a default under "cl" when nothing stored one.
InitDone_DefaultCl ==
    /\ pc = "init" /\ i > Len(steps)
    /\ pc' = "ready"
    /\ engine' = TRUE
    /\ outcome' = Returned("instance")
    /\ data' = IF Has(data, "cl") THEN data ELSE Put(data, "cl", "None")
    /\ initKeys' = DOMAIN data'
    /\ UNCHANGED <<concVars, dataVars>>
    /\ UNCHANGED <<steps, initial_steps, i, log, calls, bare, nruns,
                   ndone, clRet, failedAt,
                   handlers, attrs, input, statsSrc>>

\* __init__: the loop is over, the constructor returns the instance.
InitDone ==
    /\ pc = "init" /\ i > Len(steps)
    /\ pc' = "ready"
    /\ engine' = TRUE
    /\ outcome' = Returned("instance")
    /\ initKeys' = DOMAIN data
    /\ UNCHANGED <<concVars, dataVars>>
    /\ UNCHANGED <<steps, initial_steps, data, i, log, calls, bare, nruns,
                   ndone, clRet, failedAt,
                   handlers, attrs, input, statsSrc>>

\* run(filename), the two assignments before the loop.
SeedContext_Reset(d, f) ==
    Put(Put(EmptyDict, "filename", f), "steps_string", StepsToString(steps))
\* A run() that keeps the filename of an earlier call (setdefault).
SeedContext_KeepFirst(d, f) ==
    Put(Put(d, "filename", IF Has(d, "filename") THEN d["filename"] ELSE f),
        "steps_string", StepsToString(steps))
SeedContext(d, f) ==
    Put(Put(d, "filename", f), "steps_string", StepsToString(steps))

\* A run() that seeds the Context and then refuses to start unless ok holds
\* of the seeded Context.
RunStartIf(ok) ==
    /\ pc = "ready" /\ engine
    /\ nruns < MaxRuns
    /\ \E f \in Files : data' = SeedContext(data, f) /\ input' = f
    /\ statsSrc' = IF Has(data, "stats") THEN "old" ELSE "none"
    /\ IF ok THEN pc' = "run" /\ outcome' = NoOutcome
             ELSE pc' = "ready" /\ outcome' = Raised("KeyError")
    /\ i' = 1
    /\ nruns' = nruns + 1
    /\ log' = <<>>
    /\ failedAt' = NoStage
    /\ UNCHANGED <<concVars, dataVars>>
    /\ UNCHANGED <<steps, initial_steps, engine, calls, bare, ndone, clRet,
                   initKeys,
                   handlers, attrs>>

\* ... when "stats" is not in the Context yet.
RunStart_StatsChecked == RunStartIf(Has(data', "stats"))

\* ... when a key some run-phase handler reads is not in the Context.
RunStart_NeedsChecked ==
    RunStartIf(\A j \in 1..Len(steps) :
                  RunRuns(steps[j]) => CanReturn(steps[j], data'))

RunStart ==
    /\ pc = "ready" /\ engine
    /\ nruns < MaxRuns
    /\ \E f \in Files : data' = SeedContext(data, f) /\ input' = f
    /\ statsSrc' = IF Has(data, "stats") THEN "old" ELSE "none"
    /\ pc' = "run"
    /\ i' = 1
    /\ nruns' = nruns + 1
    /\ log' = <<>>
    /\ outcome' = NoOutcome
    /\ failedAt' = NoStage
    /\ UNCHANGED <<concVars, dataVars>>
    /\ UNCHANGED <<steps, initial_steps, engine, calls, bare, ndone, clRet,
                   initKeys,
                   handlers, attrs>>

\* run, loop body: `if initial_steps.__contains__(s): continue`
RunSkip ==
    /\ pc = "run" /\ i <= Len(steps)
    /\ ~RunRuns(steps[i])
    /\ i' = i + 1
    /\ UNCHANGED <<concVars, dataVars>>
    /\ UNCHANGED <<steps, initial_steps, data, pc, engine, outcome, log, calls,
                   bare, nruns, ndone, clRet, failedAt, initKeys,
                   handlers, attrs, input, statsSrc>>

\* run, loop body: self.data = self.steps[s](self.data)
RunStage ==
    /\ pc = "run" /\ i <= Len(steps)
    /\ RunRuns(steps[i])
    /\ CanReturn(steps[i], data)
    /\ \E r \in HandlerReturns(steps[i], data) :
         data' = r /\ statsSrc' = StatsSource(data, r)
    /\ Invoke(steps[i], "ctx")
    /\ i' = i + 1
    /\ UNCHANGED <<concVars, dataVars>>
    /\ UNCHANGED <<steps, initial_steps, pc, engine, outcome, nruns, ndone,
                   clRet, failedAt, initKeys,
                   handlers, input>>

\* A run() that empties the Context when a handler raises.
RunRaise_Reset ==
    /\ pc = "run" /\ i <= Len(steps)
    /\ RunRuns(steps[i])
    /\ Invoke(steps[i], "ctx")
    /\ \E e \in HandlerErrors(steps[i], data) : outcome' = Propagate(e)
    /\ failedAt' = steps[i]
    /\ data' = EmptyDict
    /\ statsSrc' = "none"
    /\ pc' = "ready"
    /\ UNCHANGED <<concVars, dataVars>>
    /\ UNCHANGED <<steps, initial_steps, i, engine, nruns, ndone, clRet,
                   initKeys, handlers, input>>

\* run, loop body: the handler raises; run() is left by the exception.
RunRaise ==
    /\ pc = "run" /\ i <= Len(steps)
    /\ RunRuns(steps[i])
    /\ HandlerRaises("ctx")
    /\ statsSrc' = StatsSource(data, data')
    /\ pc' = "ready"
    /\ UNCHANGED <<concVars, dataVars>>
    /\ UNCHANGED <<steps, initial_steps, i, engine, nruns, ndone, clRet,
                   initKeys,
                   handlers, input>>

\* run, after the loop: stats = self.data['stats']; return stats
ExtractStats_Get(d) == IF Has(d, "stats") THEN Returned(d["stats"]) ELSE Returned("None")
ExtractStats(d) == IF Has(d, "stats") THEN Returned(d["stats"]) ELSE Raised("KeyError")

\* A run() that takes the result out of the Context (dict.pop).
RunEnd_Pop ==
    /\ pc = "run" /\ i > Len(steps)
    /\ outcome' = ExtractStats(data)
    /\ ndone' = IF outcome'.kind = "returned" THEN ndone + 1 ELSE ndone
    /\ data' = Del(data, "stats")
    /\ pc' = "ready"
    /\ UNCHANGED <<concVars, dataVars>>
    /\ UNCHANGED <<steps, initial_steps, i, engine, log, calls, bare,
                   nruns, clRet, failedAt, initKeys,
                   handlers, attrs, input, statsSrc>>

RunEnd ==
    /\ pc = "run" /\ i > Len(steps)
    /\ outcome' = ExtractStats(data)
    /\ ndone' = IF outcome'.kind = "returned" THEN ndone + 1 ELSE ndone
    /\ pc' = "ready"
    /\ UNCHANGED <<concVars, dataVars>>
    /\ UNCHANGED <<steps, initial_steps, data, i, engine, log, calls, bare,
                   nruns, clRet, failedAt, initKeys,
                   handlers, attrs, input, statsSrc>>

Next ==
    \/ InitSkip
    \/ InitClassifier
    \/ InitStage
    \/ InitRaise
    \/ InitDone
    \/ RunStart
    \/ RunSkip
    \/ RunStage
    \/ RunRaise
    \/ RunEnd

Spec == Init /\ [][Next]_vars

\* The same engine with handlers that read Context keys and keep state of
\* their own: "load" reads "imbg" and, like "initial", may change its own
\* attributes when called.
StatefulHandlers ==
    [s \in AllNames |->
        IF s = "load" THEN Handler({"imbg"}, TRUE)
        ELSE IF s = "initial" THEN Handler({}, TRUE)
        ELSE Plain]

InitHandlers ==
    /\ steps \in Registries
    /\ initial_steps \in {{}, {"classifier"}, {"initial", "classifier"}}
    /\ data = EmptyDict
    /\ pc = "init"
    /\ i = 1
    /\ engine = FALSE
    /\ outcome = NoOutcome
    /\ log = <<>>
    /\ calls = [s \in AllNames |-> 0]
    /\ bare = [s \in AllNames |-> 0]
    /\ nruns = 0
    /\ ndone = 0
    /\ clRet = "-"
    /\ failedAt = NoStage
    /\ initKeys = {}
    /\ handlers = StatefulHandlers
    /\ attrs = [s \in AllNames |-> "constructed"]
    /\ input = "-"
    /\ statsSrc = "none"
    /\ NoThreads /\ NoDirectory

SpecHandlers == InitHandlers /\ [][Next]_vars

\* The engine built from what silcam_steps returns.
SilcamHandlers ==
    [s \in AllNames |->
        CASE s = "classifier" -> [type |-> "Classify", needs |-> {}, mutable |-> FALSE]
          [] s = "load" -> [type |-> "SilCamLoad", needs |-> {"filename"}, mutable |-> FALSE]
          [] s = "imageprep" -> [type |-> "ImagePrep", needs |-> {"img"}, mutable |-> FALSE]
          [] s = "segmentation" -> [type |-> "Segment", needs |-> {"imc"}, mutable |-> FALSE]
          [] s = "statextract" ->
               [type |-> "CalculateStats", needs |-> {"imbw"}, mutable |-> FALSE]
          [] s = "output" -> [type |-> "StatsH5", needs |-> {"stats"}, mutable |-> FALSE]
          [] OTHER -> Plain]

silcam_steps ==
    [steps |-> SilcamSteps, initial_steps |-> {"classifier"}, handlers |-> SilcamHandlers]

InitSilcam ==
    /\ steps = silcam_steps.steps
    /\ initial_steps = silcam_steps.initial_steps
    /\ handlers = silcam_steps.handlers
    /\ data = EmptyDict
    /\ pc = "init"
    /\ i = 1
    /\ engine = FALSE
    /\ outcome = NoOutcome
    /\ log = <<>>
    /\ calls = [s \in AllNames |-> 0]
    /\ bare = [s \in AllNames |-> 0]
    /\ nruns = 0
    /\ ndone = 0
    /\ clRet = "-"
    /\ failedAt = NoStage
    /\ initKeys = {}
    /\ attrs = [s \in AllNames |-> "constructed"]
    /\ input = "-"
    /\ statsSrc = "none"
    /\ NoThreads /\ NoDirectory

NextSilcam ==
    \/ InitSkip
    \/ InitClassifier
    \/ InitRaise
    \/ InitDone
    \/ RunStart
    \/ RunSkip
    \/ RunStage
    \/ RunRaise
    \/ RunEnd

SpecSilcam == InitSilcam /\ [][NextSilcam]_vars

\* ------------------------------------------------- two concurrent calls
\* Two threads each make one call of run(); the engines are built from
\* silcam_steps and constructed.  A thread switch can fall between any two
\* statements of run(); the silcam handlers write into the dict they are
\* given and return it, so a stage call and the assignment of its result to
\* self.data are one step.
Threads == {"t1", "t2"}
Engines == {"e1", "e2"}

\* self.data of the engine thread t calls run() on: __init__ gives every
\* instance a dict of its own.
ContextOf_ClassLevel(t) == "e1"
ContextOf(t) == on[t]

\* The "stats" a completed run of the silcam stages on f alone leaves.
StatsFor(f) ==
    CalculateStats(Segment(ImagePrep(SilCamLoad([k \in {"filename"} |-> f]))))["stats"]

InitConc ==
    /\ steps = silcam_steps.steps
    /\ initial_steps = silcam_steps.initial_steps
    /\ handlers = silcam_steps.handlers
    /\ data = EmptyDict
    /\ pc = "threads"
    /\ i = 1
    /\ engine = TRUE
    /\ outcome = NoOutcome
    /\ log = <<>>
    /\ calls = [s \in AllNames |-> 0]
    /\ bare = [s \in AllNames |-> 0]
    /\ nruns = 0
    /\ ndone = 0
    /\ clRet = "-"
    /\ failedAt = NoStage
    /\ initKeys = {}
    /\ attrs = [s \in AllNames |-> "constructed"]
    /\ input = "-"
    /\ statsSrc = "none"
    /\ cdata = [e \in Engines |-> [k \in {"cl"} |-> "v1"]]
    /\ on \in [Threads -> Engines]
    /\ arg \in [Threads -> Files]
    /\ tpc = [t \in Threads |-> "call"]
    /\ ti = [t \in Threads |-> 1]
    /\ foreign = [t \in Threads |-> FALSE]
    /\ ret = [t \in Threads |-> NoOutcome]
    /\ NoDirectory

\* run: self.data['filename'] = filename
TSeedInput(t) ==
    /\ tpc[t] = "call"
    /\ cdata' = [cdata EXCEPT ![ContextOf(t)] = Put(@, "filename", arg[t])]
    /\ tpc' = [tpc EXCEPT ![t] = "seed"]
    /\ UNCHANGED <<pipeVars, dataVars, on, arg, ti, foreign, ret>>

\* run: self.data['steps_string'] = steps_to_string(self.steps)
TSeedString(t) ==
    /\ tpc[t] = "seed"
    /\ cdata' = [cdata EXCEPT ![ContextOf(t)] = Put(@, "steps_string", StepsToString(steps))]
    /\ tpc' = [tpc EXCEPT ![t] = "loop"]
    /\ UNCHANGED <<pipeVars, dataVars, on, arg, ti, foreign, ret>>

\* run, loop body: `if initial_steps.__contains__(s): continue`
TSkip(t) ==
    /\ tpc[t] = "loop" /\ ti[t] <= Len(steps)
    /\ ~RunRuns(steps[ti[t]])
    /\ ti' = [ti EXCEPT ![t] = @ + 1]
    /\ UNCHANGED <<pipeVars, dataVars, cdata, on, arg, tpc, foreign, ret>>

\* The stage about to be invoked by t's call finds another filename than t's.
Observes(t) ==
    foreign[t] \/ ~Has(cdata[ContextOf(t)], "filename")
               \/ cdata[ContextOf(t)]["filename"] # arg[t]

\* run, loop body: self.data = self.steps[s](self.data)
TStage(t) ==
    /\ tpc[t] = "loop" /\ ti[t] <= Len(steps)
    /\ RunRuns(steps[ti[t]])
    /\ CanReturn(steps[ti[t]], cdata[ContextOf(t)])
    /\ \E r \in HandlerReturns(steps[ti[t]], cdata[ContextOf(t)]) :
         cdata' = [cdata EXCEPT ![ContextOf(t)] = r]
    /\ foreign' = [foreign EXCEPT ![t] = Observes(t)]
    /\ ti' = [ti EXCEPT ![t] = @ + 1]
    /\ UNCHANGED <<pipeVars, dataVars, on, arg, tpc, ret>>

\* run, loop body: the handler raises; the thread's call is left by the
\* exception.
TRaise(t) ==
    /\ tpc[t] = "loop" /\ ti[t] <= Len(steps)
    /\ RunRuns(steps[ti[t]])
    /\ \E r \in HandlerLeaves(steps[ti[t]], cdata[ContextOf(t)]) :
         cdata' = [cdata EXCEPT ![ContextOf(t)] = r]
    /\ \E e \in HandlerErrors(steps[ti[t]], cdata[ContextOf(t)]) :
         ret' = [ret EXCEPT ![t] = Propagate(e)]
    /\ foreign' = [foreign EXCEPT ![t] = Observes(t)]
    /\ tpc' = [tpc EXCEPT ![t] = "done"]
    /\ UNCHANGED <<pipeVars, dataVars, on, arg, ti>>

\* run, after the loop: stats = self.data['stats']; return stats
TEnd(t) ==
    /\ tpc[t] = "loop" /\ ti[t] > Len(steps)
    /\ ret' = [ret EXCEPT ![t] = ExtractStats(cdata[ContextOf(t)])]
    /\ tpc' = [tpc EXCEPT ![t] = "done"]
    /\ UNCHANGED <<pipeVars, dataVars, cdata, on, arg, ti, foreign>>

NextConc ==
    \E t \in Threads :
        \/ TSeedInput(t)
        \/ TSeedString(t)
        \/ TSkip(t)
        \/ TStage(t)
        \/ TRaise(t)
        \/ TEnd(t)

SpecConc == InitConc /\ [][NextConc]_vars

\* ----------------------------------------------- example-data utilities
\* src/notebooks/exampledata.py, called in a working directory.
MaxCalls == 3          \* calls made of the example-data functions

HoloFolders == {"holo_test_data_01", "holo_test_data_02"}
FolderArgs == HoloFolders \cup {"holo_test_data_03"}  \* the last is not a known folder
BlobFiles == {"001-2082.pgm", "imbg-001-2082.pgm"}

\* The folder behind the url get_folder_from_holo_repository picks for a name:
\* the one of holo_test_data_02 for that name, of holo_test_data_01 otherwise.
RemoteFolder(foldername) ==
    IF foldername = "holo_test_data_02" THEN "holo_test_data_02"
    ELSE "holo_test_data_01"

\* A function whose else branch assigns the default name to foldername.
ReturnedFolder_Assigned(foldername) == RemoteFolder(foldername)
\* What the function returns: its argument.  The else branch compares
\* (foldername == "holo_test_data_01") and assigns nothing.
ReturnedFolder(foldername) == foldername

NoCall == [fn |-> "-", arg |-> "-", found |-> FALSE, fetched |-> "-", ret |-> "-"]

InitData ==
    /\ steps = <<>>
    /\ initial_steps = {}
    /\ handlers = [s \in AllNames |-> Plain]
    /\ data = EmptyDict
    /\ pc = "directory"
    /\ i = 1
    /\ engine = FALSE
    /\ outcome = NoOutcome
    /\ log = <<>>
    /\ calls = [s \in AllNames |-> 0]
    /\ bare = [s \in AllNames |-> 0]
    /\ nruns = 0
    /\ ndone = 0
    /\ clRet = "-"
    /\ failedAt = NoStage
    /\ initKeys = {}
    /\ attrs = [s \in AllNames |-> "constructed"]
    /\ input = "-"
    /\ statsSrc = "none"
    /\ NoThreads
    /\ present \in SUBSET (HoloFolders \cup BlobFiles)
    /\ downloads = [n \in HoloFolders \cup BlobFiles |-> 0]
    /\ last = NoCall
    /\ ncalls = 0

\* get_folder_from_holo_repository(foldername): picks the url, downloads the
\* folder behind it whether or not it is there already, returns foldername.
GetFolder ==
    /\ pc = "directory" /\ ncalls < MaxCalls
    /\ \E foldername \in FolderArgs :
         /\ present' = present \cup {RemoteFolder(foldername)}
         /\ downloads' = [downloads EXCEPT ![RemoteFolder(foldername)] = @ + 1]
         /\ last' = [fn |-> "get_folder", arg |-> foldername,
                     found |-> RemoteFolder(foldername) \in present,
                     fetched |-> RemoteFolder(foldername),
                     ret |-> ReturnedFolder(foldername)]
    /\ ncalls' = ncalls + 1
    /\ UNCHANGED <<pipeVars, concVars>>

\* get_file_from_pysilcam_blob(filename): returns filename when it exists;
\* otherwise retrieves it and returns None.
GetFile ==
    /\ pc = "directory" /\ ncalls < MaxCalls
    /\ \E filename \in BlobFiles :
         IF filename \in present
           THEN /\ last' = [fn |-> "get_file", arg |-> filename, found |-> TRUE,
                            fetched |-> "-", ret |-> filename]
                /\ UNCHANGED <<present, downloads>>
           ELSE /\ present' = present \cup {filename}
                /\ downloads' = [downloads EXCEPT ![filename] = @ + 1]
                /\ last' = [fn |-> "get_file", arg |-> filename, found |-> FALSE,
                            fetched |-> filename, ret |-> "None"]
    /\ ncalls' = ncalls + 1
    /\ UNCHANGED <<pipeVars, concVars>>

NextData ==
    \/ GetFolder
    \/ GetFile

SpecData == InitData /\ [][NextData]_vars

\* ------------------------------------------------------ what is checked
InRegistry(s) == \E j \in 1..Len(steps) : steps[j] = s

Names(l) == [n \in 1..Len(l) |-> l[n][1]]

IsPrefix(a, b) == Len(a) <= Len(b) /\ \A n \in 1..Len(a) : a[n] = b[n]

\* The registry's names that are in the initial set, and those that are not,
\* each in registry order.
ExpectedInit == SelectSeq(steps, LAMBDA s : s \in initial_steps)
ExpectedRun == SelectSeq(steps, LAMBDA s : s \notin initial_steps)

ClassifierInitial == InRegistry("classifier") /\ "classifier" \in initial_steps

\* C1: construction invokes the registry's stages whose name is in the initial
\* set, in registry order and never a stage outside the set; a construction
\* that returns has invoked every one of them exactly once and nothing else.
C1_InitInvokesInitialSet ==
    nruns = 0 =>
        /\ IsPrefix(Names(log), ExpectedInit)
        /\ engine =>
             /\ Names(log) = ExpectedInit
             /\ \A s \in StageNames :
                  calls[s] = IF InRegistry(s) /\ s \in initial_steps THEN 1 ELSE 0

C1_Witness ==
    /\ engine /\ nruns = 0
    /\ steps = <<"initial", "load", "classifier">>
    /\ Names(log) = <<"initial", "classifier">>

\* C2: a run() that returns has invoked exactly the registry's stages whose
\* name is not in the initial set, each once, in registry order.
C2_RunInvokesRunPhase ==
    (pc = "ready" /\ nruns > 0 /\ outcome.kind = "returned") =>
        /\ Names(log) = ExpectedRun
        /\ \A n \in 1..Len(log) : log[n][2] = "ctx"

C2_Witness ==
    /\ pc = "ready" /\ nruns = 2 /\ outcome.kind = "returned"
    /\ steps = <<"load", "classifier", "initial">>
    /\ Names(log) = <<"load", "initial">>

\* C3 as claimed: with "classifier" in the registry and in the initial set, it
\* is invoked once, with no argument, over the engine's lifetime, and when the
\* constructor has returned Context["cl"] is what that invocation returned.
C3_Original ==
    (engine /\ ClassifierInitial) =>
        /\ calls["classifier"] = 1 /\ bare["classifier"] = 1
        /\ nruns = 0 => (Has(data, "cl") /\ data["cl"] = clRet)

\* C3 as amended: the single no-argument invocation holds for the lifetime;
\* Context["cl"] is the returned value right after the invocation, hence when
\* the constructor returns if no initial-set stage follows the classifier.
C3_ClassifierOnceAndStored ==
    /\ (engine /\ ClassifierInitial) =>
         (calls["classifier"] = 1 /\ bare["classifier"] = 1)
    /\ (ClassifierInitial /\ nruns = 0 /\ pc # "init_failed" /\ log # <<>>
          /\ log[Len(log)] = <<"classifier", "bare">>) =>
         (Has(data, "cl") /\ data["cl"] = clRet)

C3_Witness ==
    /\ engine /\ nruns = 0 /\ ClassifierInitial
    /\ Names(log) = <<"initial", "classifier">>
    /\ Has(data, "cl") /\ data["cl"] = clRet /\ Has(data, "imbg")

\* C4: when every run() made so far has returned (N of them), each run-phase
\* stage has been invoked N times and each initial-set stage once; an
\* initial-set stage is never invoked again once the engine exists.
C4_InvocationCounts ==
    /\ (pc = "ready" /\ engine /\ ndone = nruns) =>
         \A s \in StageNames :
           calls[s] = IF ~InRegistry(s) THEN 0
                      ELSE IF s \in initial_steps THEN 1 ELSE nruns
    /\ engine => \A s \in StageNames :
                   (InRegistry(s) /\ s \in initial_steps) => calls[s] = 1

C4_Witness ==
    /\ pc = "ready" /\ ndone = 2 /\ nruns = 2
    /\ calls["load"] = 2 /\ calls["initial"] = 2 /\ calls["classifier"] = 1

\* C5: a run() whose stages have all executed returns Context["stats"] if the
\* key is present and otherwise ends in an error, returning nothing.
C5_StatsContract ==
    (pc = "ready" /\ nruns > 0 /\ failedAt = NoStage) =>
        IF Has(data, "stats")
          THEN outcome = Returned(data["stats"])
          ELSE outcome.kind = "raised" /\ outcome.val = "KeyError"

C5_Witness ==
    /\ pc = "ready" /\ nruns = 2 /\ ndone = 1 /\ failedAt = NoStage
    /\ ~Has(data, "stats") /\ outcome.kind = "raised" /\ Len(log) = 2

\* C6 as claimed: every key in the Context when the constructor returned is in
\* the Context in every later state.
C6_Original == engine => initKeys \subseteq DOMAIN data

\* C6 as amended: such a key leaves the Context only in a step that invokes a
\* stage (the stage returned a Context without it); the engine never drops it.
C6_InitKeysKeptByEngine ==
    [][engine => \A k \in initKeys :
                   (Has(data, k) /\ ~Has(data', k)) => calls' # calls]_vars

C6_Witness ==
    /\ pc = "ready" /\ nruns = 2 /\ ndone = 2
    /\ initKeys = {"cl", "imbg"} /\ initKeys \subseteq DOMAIN data
    /\ Len(log) = 1

\* C7: the engine's own steps (seeding the input and metadata keys, skipping
\* an initial-set stage, extracting the result) keep every other key with its
\* value, so what the first stage of a call receives is what the previous
\* call left, with only "filename" and "steps_string" overwritten.
C7_ContextCarriedOver ==
    [][(engine /\ calls' = calls) =>
         /\ \A k \in (DOMAIN data) \ {"filename", "steps_string"} :
              Has(data', k) /\ data'[k] = data[k]
         /\ DOMAIN data' \subseteq (DOMAIN data) \cup {"filename", "steps_string"}]_vars

C7_Witness ==
    /\ pc = "run" /\ nruns = 2 /\ log = <<>> /\ ExpectedRun # <<>>
    /\ initKeys = {} /\ Has(data, "imbg") /\ Has(data, "stats")

\* C8: a handler that raises during construction ends the constructor: the
\* failing stage is the last one invoked, no instance exists, and run() is
\* never started on it.
C8_InitFailureAborts ==
    /\ pc = "init_failed" =>
         /\ ~engine /\ nruns = 0 /\ outcome.kind = "raised"
         /\ log # <<>> /\ log[Len(log)][1] = failedAt
         /\ IsPrefix(Names(log), ExpectedInit)
    /\ (nruns = 0 /\ failedAt # NoStage) => pc = "init_failed"
    /\ nruns > 0 => engine

C8_Witness ==
    /\ pc = "init_failed" /\ Len(log) = 1 /\ Len(ExpectedInit) = 2

\* C9: a handler that raises during run() ends the call with that exception:
\* the failing stage is the last one invoked, once, and no value is returned.
C9_RunFailurePropagates ==
    (pc = "ready" /\ nruns > 0 /\ failedAt # NoStage) =>
        /\ outcome.kind = "raised" /\ outcome.val \in Errors
        /\ IsPrefix(Names(log), ExpectedRun)
        /\ log # <<>> /\ log[Len(log)][1] = failedAt
        /\ Cardinality({n \in 1..Len(log) : log[n][1] = failedAt}) = 1

C9_Witness ==
    /\ pc = "ready" /\ nruns > 0 /\ failedAt # NoStage
    /\ Len(log) = 2 /\ Len(ExpectedRun) = 3 /\ ndone = 0

\* C10 as claimed: an initial set naming a stage the registry lacks, or a
\* registry lacking "initial" or "classifier", never yields an engine.
C10_Original ==
    ((\E n \in initial_steps : ~InRegistry(n))
       \/ ~InRegistry("classifier") \/ ~InRegistry("initial")) => ~engine

\* C10 as amended: the constructor checks nothing; it ends in an error only
\* because an invoked initial-set stage raised.
C10_OnlyHandlersAbortInit ==
    pc = "init_failed" =>
        /\ failedAt # NoStage /\ InRegistry(failedAt) /\ failedAt \in initial_steps
        /\ outcome.kind = "raised" /\ outcome.val \in Errors

C10_Witness ==
    /\ engine /\ "ghost" \in initial_steps /\ ~InRegistry("classifier")
    /\ pc = "ready" /\ ndone = 1

\* C11 as claimed: the audit string stored at the start of a run() that
\* returned equals the audit string computed after it, and has one group per
\* registry entry, in order, with its 1-based index and name.
C11_Original ==
    (pc = "ready" /\ nruns > 0 /\ outcome.kind = "returned"
       /\ Has(data, "steps_string")) =>
        /\ data["steps_string"] = StepsToString(steps)
        /\ Len(StepsToString(steps)) = Len(steps)

\* C11 as amended: the string stored at the start of a call and the string
\* computed later have the same groups, index, name and type; they differ
\* only in the vars of a handler that was called since and changed its own
\* attributes.
C11_AuditString ==
    /\ Len(StepsToString(steps)) = Len(steps)
    /\ \A n \in 1..Len(steps) :
         /\ StepsToString(steps)[n].index = n
         /\ StepsToString(steps)[n].step = steps[n]
    /\ (pc \in {"run", "ready"} /\ nruns > 0 /\ Has(data, "steps_string")) =>
         /\ Len(data["steps_string"]) = Len(steps)
         /\ \A n \in 1..Len(steps) :
              /\ data["steps_string"][n].index = n
              /\ data["steps_string"][n].step = steps[n]
              /\ data["steps_string"][n].type = StepsToString(steps)[n].type
              /\ data["steps_string"][n].vars # attrs[steps[n]] =>
                   /\ handlers[steps[n]].mutable
                   /\ \E m \in 1..Len(log) : log[m][1] = steps[n]

C11_Witness ==
    /\ pc = "ready" /\ nruns = 2 /\ outcome.kind = "returned"
    /\ Len(steps) = 3 /\ Len(log) = 2 /\ Has(data, "steps_string")
    /\ data["steps_string"] = StepsToString(steps)
    /\ attrs["load"] = "changed"

\* C12: when a run(x) is about to invoke its first stage, the Context holds x
\* under "filename" and the audit string of the registry as it is then under
\* "steps_string".
C12_SeededBeforeStages ==
    (pc = "run" /\ log = <<>>) =>
        /\ Has(data, "filename") /\ data["filename"] = input
        /\ Has(data, "steps_string")
        /\ data["steps_string"] = StepsToString(steps)

C12_Witness ==
    /\ pc = "run" /\ log = <<>> /\ nruns = 2 /\ input = "f2"
    /\ attrs["load"] = "changed" /\ i = 2 /\ steps[2] = "load"
    /\ data["filename"] = "f2"

\* C13 as claimed: a registry with a "classifier" has it invoked once, with no
\* argument, at construction, whatever the initial set, and never with the
\* Context.
C13_Original ==
    InRegistry("classifier") =>
        /\ engine => bare["classifier"] = 1
        /\ \A n \in 1..Len(log) : log[n][1] = "classifier" => log[n][2] = "bare"

\* C13 as amended: that holds when "classifier" is in the initial set; when it
\* is not, the classifier is never invoked without argument and run() calls
\* it with the Context like any other stage.
C13_ClassifierByInitialSet ==
    /\ ClassifierInitial =>
         /\ engine => (bare["classifier"] = 1 /\ calls["classifier"] = 1)
         /\ \A n \in 1..Len(log) :
              log[n][1] = "classifier" => (log[n][2] = "bare" /\ nruns = 0)
         /\ (nruns = 0 /\ pc = "init" /\ calls["classifier"] = 1) =>
              \E n \in 1..Len(log) : log[n] = <<"classifier", "bare">>
    /\ (InRegistry("classifier") /\ "classifier" \notin initial_steps) =>
         /\ bare["classifier"] = 0
         /\ nruns = 0 => calls["classifier"] = 0
         /\ \A n \in 1..Len(log) : log[n][2] = "ctx"

C13_Witness ==
    /\ pc = "ready" /\ nruns = 2 /\ ndone = 2 /\ ClassifierInitial
    /\ bare["classifier"] = 1 /\ calls["classifier"] = 1
    /\ steps = <<"load", "classifier", "initial">> /\ Len(log) = 2

\* C14 as claimed: a run() in which no stage sets Context["stats"] raises, and
\* does so after all its run-phase stages were invoked.
C14_Original ==
    (pc = "ready" /\ nruns > 0 /\ failedAt = NoStage /\ statsSrc # "new") =>
        (outcome.kind = "raised" /\ Names(log) = ExpectedRun)

\* C14 as amended: a run() whose stages all completed raises exactly when the
\* Context then has no "stats", after all its run-phase stages were invoked;
\* a "stats" left by construction or an earlier call is returned instead.
C14_StatsMissingRaisesLast ==
    (pc = "ready" /\ nruns > 0 /\ failedAt = NoStage) =>
        /\ Names(log) = ExpectedRun
        /\ statsSrc = "none" => outcome = Raised("KeyError")
        /\ statsSrc = "old" => (outcome.kind = "returned" /\ Has(data, "stats"))

C14_Witness ==
    /\ pc = "ready" /\ nruns = 2 /\ ndone = 0 /\ failedAt = NoStage
    /\ statsSrc = "none" /\ outcome = Raised("KeyError") /\ Len(log) = 3

\* C15: the engine checks no precondition: a run() ends in an error either
\* because the handler it was invoking raised (every run-phase stage before
\* it was invoked and returned, none after it is invoked) or at the stats
\* lookup after all of them; a missing key fails at the handler that reads it.
C15_FailsAtPointOfUse ==
    /\ pc = "run" =>
         Names(log) = SelectSeq(SubSeq(steps, 1, i - 1),
                                LAMBDA s : s \notin initial_steps)
    /\ (pc = "ready" /\ nruns > 0 /\ outcome.kind = "raised") =>
         IF failedAt = NoStage
           THEN Names(log) = ExpectedRun
           ELSE /\ IsPrefix(Names(log), ExpectedRun)
                /\ log[Len(log)][1] = failedAt
                /\ outcome.val = "KeyError" => handlers[failedAt].needs # {}

C15_Witness ==
    /\ pc = "ready" /\ failedAt = "load" /\ outcome = Raised("KeyError")
    /\ steps = <<"initial", "classifier", "load">> /\ initial_steps = {}
    /\ Len(log) = 3 /\ ~Has(data, "imbg")

\* C16 as claimed: without a "classifier" in the registry, a constructed
\* engine has no "cl" in its Context, no stage is ever invoked without the
\* Context, and a stage not named "classifier" always gets the Context.
C16_Original ==
    /\ ~InRegistry("classifier") =>
         /\ (engine /\ nruns = 0) => ~Has(data, "cl")
         /\ \A s \in AllNames : bare[s] = 0
    /\ \A n \in 1..Len(log) : log[n][1] # "classifier" => log[n][2] = "ctx"

\* C16 as amended: the engine stores nothing under "cl": the key is absent
\* when no initial-set stage ran, and appears only in a step that invokes a
\* handler; the rest as claimed.
C16_NoClassifierNoSpecialCase ==
    /\ [](/\ ~InRegistry("classifier") =>
              /\ (engine /\ nruns = 0 /\ log = <<>>) => ~Has(data, "cl")
              /\ \A s \in AllNames : bare[s] = 0
          /\ \A n \in 1..Len(log) : log[n][1] # "classifier" => log[n][2] = "ctx")
    /\ [][(~InRegistry("classifier") /\ calls' = calls /\ Has(data', "cl"))
            => Has(data, "cl")]_vars

C16_Witness ==
    /\ pc = "ready" /\ nruns = 2 /\ ~InRegistry("classifier")
    /\ steps = <<"load", "initial">> /\ "initial" \in initial_steps
    /\ ~Has(data, "cl") /\ calls["load"] = 2

C19_SilcamPipeline ==
    /\ [](/\ (engine /\ nruns = 0) => log = << <<"classifier", "bare">> >>
          /\ (pc = "ready" /\ nruns > 0 /\ outcome.kind = "returned") =>
               Names(log) = <<"load", "imageprep", "segmentation", "statextract",
                              "output">>
          /\ (pc = "run" /\ i <= Len(steps) /\ steps[i] = "load") =>
               (Has(data, "filename") /\ data["filename"] = input)
          /\ (pc = "run" /\ i <= Len(steps) /\ steps[i] = "imageprep") =>
               /\ Has(data, "img") /\ data["img"] = Image(input)
               /\ log[Len(log)][1] = "load"
          /\ \A s \in AllNames : s # "classifier" => bare[s] = 0
          /\ engine => (bare["classifier"] = 1 /\ calls["classifier"] = 1))
    /\ [][/\ (calls'["load"] # calls["load"] /\ pc' = "run") =>
               /\ DOMAIN data' = (DOMAIN data) \cup {"timestamp", "img"}
               /\ \A k \in (DOMAIN data) \ {"timestamp", "img"} : data'[k] = data[k]
               /\ data'["img"] = Image(input) /\ data'["timestamp"] = Timestamp(input)
          /\ (calls'["imageprep"] # calls["imageprep"] /\ pc' = "run") =>
               /\ DOMAIN data' = (DOMAIN data) \cup {"imc"}
               /\ \A k \in (DOMAIN data) \ {"imc"} : data'[k] = data[k]]_vars

C19_Witness ==
    /\ pc = "ready" /\ nruns = 2 /\ ndone = 2 /\ input = "f2"
    /\ data["img"] = Image("f2") /\ data["imc"] = Corrected(Image("f2"))
    /\ Len(log) = 5

\* C17: two calls of run() on two engine instances never interfere: every
\* stage of run(a) is invoked with Context["filename"] = a and a run(a) that
\* returns, returns the stats computed for a.  On one shared instance there
\* is an interleaving (the witness) in which a stage of run(a) finds the
\* filename b of the other call and run(a) returns the stats computed for b.
C17_SeparateInstancesSafe ==
    (\A t, u \in DOMAIN on : t # u => on[t] # on[u]) =>
        \A t \in DOMAIN on :
            /\ ~foreign[t]
            /\ tpc[t] \in {"seed", "loop"} =>
                 (Has(cdata[on[t]], "filename") /\ cdata[on[t]]["filename"] = arg[t])
            /\ ret[t].kind = "returned" => ret[t].val = StatsFor(arg[t])

C17_Witness ==
    /\ pc = "threads"
    /\ on["t1"] = on["t2"] /\ arg["t1"] # arg["t2"]
    /\ foreign["t1"]
    /\ ret["t1"] = Returned(StatsFor(arg["t2"]))
    /\ ret["t2"] = Returned(StatsFor(arg["t2"]))

\* C20 as claimed: a call of get_folder_from_holo_repository made when the
\* folder is already in the working directory downloads nothing, so no folder
\* is downloaded more than once, and the name returned is the name of the
\* folder that was downloaded.
C20_Original ==
    /\ (last.fn = "get_folder" /\ last.found) => last.fetched = "-"
    /\ \A f \in HoloFolders : f \in DOMAIN downloads => downloads[f] <= 1
    /\ (last.fn = "get_folder" /\ last.fetched # "-") => last.ret = last.fetched

\* What the code does instead: every call downloads, and returns its argument.
C20_AlwaysDownloads ==
    /\ last.fn = "get_folder" =>
         /\ last.fetched = RemoteFolder(last.arg)
         /\ last.ret = last.arg
         /\ last.fetched \in present /\ downloads[last.fetched] >= 1
    /\ last.fn = "get_file" =>
         /\ last.found <=> last.fetched = "-"
         /\ last.arg \in present
         /\ downloads[last.arg] <= 1

C20_Witness ==
    /\ last.fn = "get_folder" /\ last.found /\ last.arg = "holo_test_data_03"
    /\ last.fetched = "holo_test_data_01" /\ downloads["holo_test_data_01"] = 2

====
